---- MODULE Spec2Model ----
(***************************************************************************)
(* propmap: the combined-score computation of CombinedScoreLayer, with the *)
(* geometry helpers it rests on (DeprivationLayer._centroid, _haversine,   *)
(* _nearestStation) and the data the two asynchronous loaders hand to it.  *)
(*                                                                         *)
(* Numbers.  Components (depComp, aqComp, noiseComp) are held in           *)
(* thousandths, weights in thousandths, the score in millionths, so the    *)
(* weighted sum is exact.  Coordinates are exact rationals <<n, d>> in     *)
(* lowest terms (degrees).  JavaScript's null is Null, a present value v   *)
(* is Some(v).                                                             *)
(***************************************************************************)
EXTENDS Integers, Sequences, FiniteSets, TLC

VARIABLES
    pc,            \* which pure function is under call, and whether it has returned
    arg_lsoa,      \* computeScore harness: the region record handed to the map callback
    arg_stations,  \* computeScore harness: AirQualityLayer._stations, in Object.entries order
    ret_feature,   \* computeScore harness: what the map callback produced
    arg_point,     \* nearest harness: <<lat, lng>>
    arg_cands,     \* nearest harness: the candidate mapping, in Object.entries order
    ret_nearest,   \* nearest harness: what _nearestStation returned
    arg_geometry,  \* centroid harness: a GeoJSON geometry
    ret_centroid,  \* centroid harness: what _centroid returned
    arg_a,         \* distance harness: <<lat, lng>> of the first point
    arg_b,         \* distance harness: <<lat, lng>> of the second point
    ret_dist,      \* distance harness: _haversine of (a,b), (b,a), (a,a)
    arg_score,     \* colour harness: the score handed to _scoreColor, in millionths
    ret_color,     \* colour harness: the channels of the rgb(...) string returned
    arg_aqiData,   \* maxAQI harness: aqiMap[code], Null when the site has no entry
    ret_maxAQI,    \* maxAQI harness: the maxAQI _buildLayer stores for the station
    app,           \* the page: the layer modules' closures, the map, the legend container
    builds,        \* history: the two latest runs of CombinedScoreLayer._buildLayer,
                   \* latest first, each with the data it read and the layer it made
    before         \* history: from the checking of toggle-combined until the step
                   \* after its unchecking, the individual layers on the map and the
                   \* five checkboxes as they were when it was checked

distanceVars == <<arg_a, arg_b, ret_dist>>

colorVars == <<arg_score, ret_color>>

maxAQIVars == <<arg_aqiData, ret_maxAQI>>

harness == <<pc, arg_lsoa, arg_stations, ret_feature, arg_point, arg_cands, ret_nearest,
             arg_geometry, ret_centroid, distanceVars, colorVars,
             maxAQIVars>>

vars == <<harness, app, builds, before>>

-----------------------------------------------------------------------------
(* Bounds of the model *)

MaxStations == 2

MaxRingLen == 4

MaxPolys == 2

MaxRegions == 2

ScoreGrid == 400

MaxPollutants == 3

-----------------------------------------------------------------------------
(* JavaScript values *)

Null == <<>>

Some(v) == <<v>>

Val(x) == x[1]

Min2(a, b) == IF a < b THEN a ELSE b

(* Rationals in lowest terms, denominator positive. *)
RECURSIVE GCD(_, _)
GCD(a, b) == IF b = 0 THEN a ELSE GCD(b, a % b)

Abs(x) == IF x < 0 THEN -x ELSE x

Rat(n, d) ==
    LET g == GCD(Abs(n), Abs(d))
        s == IF d < 0 THEN -1 ELSE 1
    IN  <<(s * n) \div g, (s * d) \div g>>

RInt(k) == <<k, 1>>

RSub(a, b) == Rat(a[1] * b[2] - b[1] * a[2], a[2] * b[2])

-----------------------------------------------------------------------------
(* DeprivationLayer._centroid.  A geometry is [type, coordinates]; a ring is *)
(* a sequence of positions <<lng, lat>>; a Polygon's coordinates are its     *)
(* rings, outer ring first; a MultiPolygon's coordinates are such polygons.  *)

(* arr[0]: undefined (Null) when the array is empty *)
First(arr) == IF Len(arr) >= 1 THEN Some(arr[1]) ELSE Null

RECURSIVE RingLoop(_, _, _)
RingLoop(ring, i, acc) ==
    IF i > Len(ring)
    THEN acc
    ELSE RingLoop(ring, i + 1,
             [acc EXCEPT !.sumLng = @ + ring[i][1],
                         !.sumLat = @ + ring[i][2],
                         !.count  = @ + 1])

(* for (const [lng, lat] of ring): iterating undefined is a TypeError *)
processRing(acc, ring) ==
    IF acc.raised THEN acc
    ELSE IF ring = Null THEN [acc EXCEPT !.raised = TRUE]
    ELSE RingLoop(Val(ring), 1, acc)

RECURSIVE AllRingsLoop(_, _, _)
AllRingsLoop(poly, i, acc) ==
    IF i > Len(poly) THEN acc
    ELSE AllRingsLoop(poly, i + 1, processRing(acc, Some(poly[i])))

processPolygonWithHoles(acc, poly) ==
    IF Len(poly) = 0 THEN processRing(acc, Null) ELSE AllRingsLoop(poly, 1, acc)

(* processRing(coords[0]) / processRing(poly[0]) *)
processPolygon(acc, poly) == processRing(acc, First(poly))

RECURSIVE PolygonsLoop(_, _, _)
PolygonsLoop(coords, i, acc) ==
    IF i > Len(coords) \/ acc.raised
    THEN acc
    ELSE PolygonsLoop(coords, i + 1, processPolygon(acc, coords[i]))

CentroidResultSwapped(acc) ==
    IF acc.raised THEN [raised |-> TRUE, value |-> Null]
    ELSE IF acc.count = 0 THEN [raised |-> FALSE, value |-> Null]
    ELSE [raised |-> FALSE,
          value  |-> Some(<<Rat(acc.sumLng, acc.count), Rat(acc.sumLat, acc.count)>>)]

(* if (count === 0) return null; return [sumLat / count, sumLng / count] *)
CentroidResult(acc) ==
    IF acc.raised THEN [raised |-> TRUE, value |-> Null]
    ELSE IF acc.count = 0 THEN [raised |-> FALSE, value |-> Null]
    ELSE [raised |-> FALSE,
          value  |-> Some(<<Rat(acc.sumLat, acc.count), Rat(acc.sumLng, acc.count)>>)]

_centroid(geometry) ==
    LET coords == geometry.coordinates
        acc0   == [sumLat |-> 0, sumLng |-> 0, count |-> 0, raised |-> FALSE]
    IN  CentroidResult(
            IF geometry.type = "Polygon" THEN processPolygon(acc0, coords)
            ELSE IF geometry.type = "MultiPolygon" THEN PolygonsLoop(coords, 1, acc0)
            ELSE acc0)

-----------------------------------------------------------------------------
(* _haversine, on the grid of angles that are multiples of 60 degrees, where *)
(* every cosine is rational.  A16 is 16 * a of the source; the closing       *)
(* R * 2 * atan2(sqrt(a), sqrt(1 - a)) is tabulated in whole kilometres.     *)

(* 2 * cos(x), x a whole multiple of 60 degrees *)
CosTwice(x) ==
    LET k == x[1] % 360
    IN  CASE x[2] = 1 /\ k = 0   -> 2
          [] x[2] = 1 /\ k = 60  -> 1
          [] x[2] = 1 /\ k = 120 -> -1
          [] x[2] = 1 /\ k = 180 -> -2
          [] x[2] = 1 /\ k = 240 -> -1
          [] x[2] = 1 /\ k = 300 -> 1

(* 4 * sin(x / 2) ** 2  =  2 - 2 * cos(x) *)
SinHalfSq4(x) == 2 - CosTwice(x)

(* round(6371 * 2 * atan2(sqrt(k/16), sqrt(1 - k/16))), k = 0..16 *)
GreatCircleKm ==
    <<0, 3220, 4605, 5706, 6672, 7559, 8398, 9209, 10008,
      10806, 11617, 12457, 13343, 14309, 15411, 16795, 20015>>

_haversineFirstLatOnly(lat1, lng1, lat2, lng2) ==
    LET dLat == RSub(lat2, lat1)
        dLng == RSub(lng2, lng1)
        A16  == 4 * SinHalfSq4(dLat)
                + CosTwice(lat1) * CosTwice(lat1) * SinHalfSq4(dLng)
    IN  GreatCircleKm[A16 + 1]

_haversine(lat1, lng1, lat2, lng2) ==
    LET dLat == RSub(lat2, lat1)
        dLng == RSub(lng2, lng1)
        A16  == 4 * SinHalfSq4(dLat)
                + CosTwice(lat1) * CosTwice(lat2) * SinHalfSq4(dLng)
    IN  GreatCircleKm[A16 + 1]

-----------------------------------------------------------------------------
(* _nearestStation *)

Infinity == 1000000

NearestInitZero == [best |-> Null, bestDist |-> 0]

NearestInit == [best |-> Null, bestDist |-> Infinity]

NearestStepLE(acc, st, d) ==
    IF d <= acc.bestDist THEN [best |-> Some(st), bestDist |-> d] ELSE acc

NearestStep(acc, st, d) ==
    IF d < acc.bestDist THEN [best |-> Some(st), bestDist |-> d] ELSE acc

RECURSIVE NearestLoop(_, _, _, _, _)
NearestLoop(lat, lng, stations, i, acc) ==
    IF i > Len(stations)
    THEN acc
    ELSE NearestLoop(lat, lng, stations, i + 1,
             NearestStep(acc, stations[i],
                 _haversine(lat, lng, stations[i].lat, stations[i].lng)))

_nearestStation(lat, lng, stations) ==
    NearestLoop(lat, lng, stations, 1, NearestInit).best

-----------------------------------------------------------------------------
(* The map callback of CombinedScoreLayer._buildLayer: one region's score *)

NEUTRAL == 500

NOISE_NEUTRAL == 500

HasStations(stations) == Len(stations) > 0

DepCompInverted(imd_decile) ==
    IF imd_decile # Null THEN Val(imd_decile) * 100 ELSE NEUTRAL

DepComp(imd_decile) ==
    IF imd_decile # Null THEN (11 - Val(imd_decile)) * 100 ELSE NEUTRAL

EntersNearestNoCentroidCheck(hasStations, centroid) == hasStations

EntersNearest(hasStations, centroid) == hasStations /\ centroid # Null

AqCompInverted(nearestSt) ==
    IF nearestSt # Null /\ Val(nearestSt).maxAQI # Null
    THEN Min2((10 - Val(Val(nearestSt).maxAQI)) * 100, 1000)
    ELSE NEUTRAL

AqCompNoCap(nearestSt) ==
    IF nearestSt # Null /\ Val(nearestSt).maxAQI # Null
    THEN Val(Val(nearestSt).maxAQI) * 100
    ELSE NEUTRAL

(* null / 10 is 0 in JavaScript *)
AqCompNoNullCheck(nearestSt) ==
    IF nearestSt # Null
    THEN IF Val(nearestSt).maxAQI # Null
         THEN Min2(Val(Val(nearestSt).maxAQI) * 100, 1000)
         ELSE 0
    ELSE NEUTRAL

AqComp(nearestSt) ==
    IF nearestSt # Null /\ Val(nearestSt).maxAQI # Null
    THEN Min2(Val(Val(nearestSt).maxAQI) * 100, 1000)
    ELSE NEUTRAL

CombinedScoreSwappedWeights(depComp, aqComp, noiseComp) ==
    400 * depComp + 200 * aqComp + 400 * noiseComp

CombinedScore(depComp, aqComp, noiseComp) ==
    400 * depComp + 400 * aqComp + 200 * noiseComp

(* What the callback yields when evaluating it throws *)
Thrown ==
    [raised |-> TRUE, score |-> 0, depComp |-> 0, aqComp |-> 0,
     noiseComp |-> 0, nearestSt |-> Null]

NoFeature ==
    [raised |-> FALSE, score |-> 0, depComp |-> 0, aqComp |-> 0,
     noiseComp |-> 0, nearestSt |-> Null]

Feature(lsoa, stations) ==
    LET hasStations == HasStations(stations)
        depComp     == DepComp(lsoa.imd_decile)
        enters      == EntersNearest(hasStations, lsoa.centroid)
    IN  IF enters /\ lsoa.centroid = Null
        THEN Thrown    \* const [lat, lng] = null  is a TypeError
        ELSE LET nearestSt == IF enters
                              THEN _nearestStation(Val(lsoa.centroid)[1],
                                                   Val(lsoa.centroid)[2], stations)
                              ELSE Null
                 aqComp    == IF enters THEN AqComp(nearestSt) ELSE NEUTRAL
                 noiseComp == NOISE_NEUTRAL
             IN  [raised    |-> FALSE,
                  score     |-> CombinedScore(depComp, aqComp, noiseComp),
                  depComp   |-> depComp,
                  aqComp    |-> aqComp,
                  noiseComp |-> noiseComp,
                  nearestSt |-> nearestSt]

-----------------------------------------------------------------------------
(* AirQualityLayer._maxAQI.  A pollutant's AirQualityIndex, as _parseAQI      *)
(* leaves it, is null, NaN or a number: [kind, v], v meaningful for "num".    *)

JsNull == [kind |-> "null", v |-> 0]

JsNaN == [kind |-> "NaN", v |-> 0]

JsNum(n) == [kind |-> "num", v |-> n]

(* parseFloat of null, of NaN and of a number *)
parseFloat(x) == IF x.kind = "num" THEN x ELSE JsNaN

MaxAQIStepLatest(max, p) ==
    LET v == parseFloat(p.AirQualityIndex)
    IN  IF v.kind # "NaN" THEN Some(v.v) ELSE max

(* if (!isNaN(v) && (max === null || v > max)) max = v *)
MaxAQIStep(max, p) ==
    LET v == parseFloat(p.AirQualityIndex)
    IN  IF v.kind # "NaN" /\ (max = Null \/ v.v > Val(max)) THEN Some(v.v) ELSE max

RECURSIVE MaxAQILoop(_, _, _)
MaxAQILoop(pollutants, i, max) ==
    IF i > Len(pollutants) THEN max
    ELSE MaxAQILoop(pollutants, i + 1, MaxAQIStep(max, pollutants[i]))

_maxAQI(pollutants) == MaxAQILoop(pollutants, 1, Null)

(* aqiMap[code] || { pollutants: [], date: '' };  _maxAQI(aqiData.pollutants) *)
StationMaxAQI(entry) ==
    LET aqiData == IF entry # Null THEN Val(entry) ELSE [pollutants |-> <<>>]
    IN  _maxAQI(aqiData.pollutants)

-----------------------------------------------------------------------------
(* _scoreColor.  Scores and stop positions are in millionths; the scalar t *)
(* of _lerp is an exact fraction <<numerator, denominator>>.               *)

COLOR_STOPS ==
    << [t |-> 0,       r |-> 44,  g |-> 160, b |-> 44],
       [t |-> 250000,  r |-> 143, g |-> 188, b |-> 50],
       [t |-> 500000,  r |-> 240, g |-> 165, b |-> 0],
       [t |-> 750000,  r |-> 220, g |-> 90,  b |-> 30],
       [t |-> 1000000, r |-> 180, g |-> 30,  b |-> 30] >>

_lerpFromHi(a, b, t) == (2 * (b * t[2] + (b - a) * t[1]) + t[2]) \div (2 * t[2])

(* Math.round(a + (b - a) * t): the nearest integer, halves upwards *)
_lerp(a, b, t) == (2 * (a * t[2] + (b - a) * t[1]) + t[2]) \div (2 * t[2])

ClampNone(score) == score

(* Math.max(0, Math.min(1, score)) *)
ClampUnit(score) == IF score < 0 THEN 0 ELSE Min2(score, 1000000)

(* the for loop: the first i with stops[i].t <= s <= stops[i+1].t, else the *)
(* first and the last stop                                                  *)
RECURSIVE Bracket(_, _, _)
Bracket(stops, s, i) ==
    IF i > Len(stops) - 1
    THEN [lo |-> stops[1], hi |-> stops[Len(stops)]]
    ELSE IF s >= stops[i].t /\ s <= stops[i + 1].t
         THEN [lo |-> stops[i], hi |-> stops[i + 1]]
         ELSE Bracket(stops, s, i + 1)

_scoreColor(score) ==
    LET s    == ClampUnit(score)
        br   == Bracket(COLOR_STOPS, s, 1)
        lo   == br.lo
        hi   == br.hi
        span == IF hi.t - lo.t # 0 THEN hi.t - lo.t ELSE 1000000
        t    == <<s - lo.t, span>>
    IN  [r |-> _lerp(lo.r, hi.r, t),
         g |-> _lerp(lo.g, hi.g, t),
         b |-> _lerp(lo.b, hi.b, t)]

-----------------------------------------------------------------------------
(* The page.  app is one record: the closure variables of the layer modules, *)
(* the layers on the Leaflet map, the panels of #legend-container in order.  *)
(* Each operation of a module is a function from page to page.               *)

AppIdle ==
    [onMap        |-> {},     \* the layers on the map that a module references
     stale        |-> {},     \* modules with a layer on the map they no longer reference
     legend       |-> <<>>,
     air_map      |-> FALSE,
     air_visible  |-> FALSE,
     air_stations |-> <<>>,
     air_load     |-> "idle",
     dep_map      |-> FALSE,
     dep_layer    |-> Null,
     dep_visible  |-> FALSE,
     dep_data     |-> <<>>,
     dep_load     |-> "idle",
     comb_map     |-> FALSE,
     comb_layer   |-> Null,
     comb_visible |-> FALSE,
     noise_map     |-> FALSE,
     noise_visible |-> FALSE,
     rn_map        |-> FALSE,
     rn_layer      |-> FALSE,      \* RoadNoiseLayer._layer is not null
     rn_visible    |-> FALSE,
     rn_metric     |-> "RD_LDEN_R3",
     flood_map     |-> FALSE,
     flood_visible |-> FALSE,
     flood_mode    |-> "rs",
     chk_air       |-> TRUE,       \* toggle-air.checked, and so on
     chk_noise     |-> TRUE,
     chk_rn        |-> TRUE,
     chk_flood     |-> TRUE,
     chk_dep       |-> TRUE,
     chk_combined  |-> FALSE,
     rn_sub_hidden    |-> FALSE,   \* #road-noise-sub has class hidden
     flood_sub_hidden |-> FALSE,   \* #flood-sub has class hidden
     stateBeforeCombined |-> Null]

(* A module variable is assigned a newly made layer: the layer it referenced *)
(* until now, if on the map, stays there unreferenced; the new one is not on *)
(* the map yet.                                                              *)
Fresh(w, name) ==
    [w EXCEPT !.stale = @ \cup (w.onMap \cap {name}), !.onMap = @ \ {name}]

(* Legend.remove: the first panel with the key's id, if any *)
Legend_remove(w, key) ==
    IF \E i \in 1..Len(w.legend) : w.legend[i] = key
    THEN LET i == CHOOSE i \in 1..Len(w.legend) :
                      /\ w.legend[i] = key
                      /\ \A j \in 1..(i - 1) : w.legend[j] # key
         IN  [w EXCEPT !.legend = SubSeq(@, 1, i - 1) \o SubSeq(@, i + 1, Len(@))]
    ELSE w

Legend_render(w, key) ==
    [Legend_remove(w, key) EXCEPT !.legend = Append(@, key)]

(* AirQualityLayer *)

AirQualityLayer_init(w) ==
    Legend_render([Fresh(w, "air") EXCEPT
                            !.air_map = TRUE,
                            !.onMap = @ \cup {"air"},
                            !.air_visible = TRUE,
                            !.air_load = "pending"], "air")

(* the fetch resolved: _buildLayer has refilled _stations *)
AirQualityLayer_loaded(w, stations) ==
    [w EXCEPT !.air_stations = stations, !.air_load = "done"]

AirQualityLayer_failed(w) == [w EXCEPT !.air_load = "failed"]

AirQualityLayer_show(w) ==
    IF ~w.air_map \/ w.air_visible THEN w
    ELSE Legend_render([w EXCEPT !.onMap = @ \cup {"air"},
                                 !.air_visible = TRUE], "air")

AirQualityLayer_hide(w) ==
    IF ~w.air_map \/ ~w.air_visible THEN w
    ELSE Legend_remove([w EXCEPT !.onMap = @ \ {"air"},
                                 !.air_visible = FALSE], "air")

(* DeprivationLayer *)

DeprivationLayer_init(w) ==
    Legend_render([w EXCEPT !.dep_map = TRUE, !.dep_load = "pending"], "deprivation")

HasDecile(f) == f.imd_decile # Null

(* geojson.features.filter(f => f.properties.imd_decile != null).map(...) *)
BuildData(geojson) ==
    LET kept == SelectSeq(geojson, HasDecile)
        cs   == [i \in 1..Len(kept) |-> _centroid(kept[i].geometry)]
    IN  [raised |-> \E i \in 1..Len(kept) : cs[i].raised,
         data   |-> [i \in 1..Len(kept) |->
                        [lsoa_code  |-> kept[i].lsoa_code,
                         imd_decile |-> kept[i].imd_decile,
                         centroid   |-> cs[i].value,
                         geometry   |-> Some(kept[i].geometry)]]]

(* the fetch resolved with geojson; a throw inside the try is caught and logged *)
DeprivationLayer_loaded(w, geojson) ==
    LET built == BuildData(geojson)
    IN  IF built.raised
        THEN [Fresh(w, "dep") EXCEPT !.dep_layer = Some(geojson), !.dep_load = "failed"]
        ELSE [Fresh(w, "dep") EXCEPT
                       !.dep_layer = Some(geojson),
                       !.dep_data = built.data,
                       !.onMap = @ \cup {"dep"},
                       !.dep_visible = TRUE,
                       !.dep_load = "done"]

DeprivationLayer_failed(w) == [w EXCEPT !.dep_load = "failed"]

DeprivationLayer_show(w) ==
    IF ~w.dep_map \/ w.dep_visible \/ w.dep_layer = Null THEN w
    ELSE Legend_render([w EXCEPT !.onMap = @ \cup {"dep"},
                                 !.dep_visible = TRUE], "deprivation")

DeprivationLayer_hide(w) ==
    IF ~w.dep_map \/ ~w.dep_visible \/ w.dep_layer = Null THEN w
    ELSE Legend_remove([w EXCEPT !.onMap = @ \ {"dep"},
                                 !.dep_visible = FALSE], "deprivation")

(* NoiseLayer *)

NoiseLayer_init(w) ==
    Legend_render([Fresh(w, "noise") EXCEPT
                            !.noise_map = TRUE,
                            !.onMap = @ \cup {"noise"},
                            !.noise_visible = TRUE], "noise")

NoiseLayer_show(w) ==
    IF ~w.noise_map \/ w.noise_visible THEN w
    ELSE Legend_render([w EXCEPT !.onMap = @ \cup {"noise"},
                                 !.noise_visible = TRUE], "noise")

NoiseLayer_hide(w) ==
    IF ~w.noise_map \/ ~w.noise_visible THEN w
    ELSE Legend_remove([w EXCEPT !.onMap = @ \ {"noise"},
                                 !.noise_visible = FALSE], "noise")

(* RoadNoiseLayer *)

METRICS == {"RD_LDEN_R3", "RD_LQ16_R3", "RD_LNGT_R3"}

RoadNoiseLayer_init(w) ==
    Legend_render([Fresh(w, "road-noise") EXCEPT
                            !.rn_map = TRUE,
                            !.rn_layer = TRUE,
                            !.onMap = @ \cup {"road-noise"},
                            !.rn_visible = TRUE], "road-noise")

RoadNoiseLayer_showUnguarded(w) ==
    IF ~w.rn_map THEN w
    ELSE Legend_render([Fresh(w, "road-noise") EXCEPT
                                 !.rn_layer = TRUE,
                                 !.onMap = @ \cup {"road-noise"},
                                 !.rn_visible = TRUE], "road-noise")

RoadNoiseLayer_show(w) ==
    IF ~w.rn_map \/ w.rn_visible THEN w
    ELSE Legend_render([Fresh(w, "road-noise") EXCEPT
                                 !.rn_layer = TRUE,
                                 !.onMap = @ \cup {"road-noise"},
                                 !.rn_visible = TRUE], "road-noise")

RoadNoiseLayer_hide(w) ==
    IF ~w.rn_map \/ ~w.rn_visible THEN w
    ELSE Legend_remove([w EXCEPT !.onMap = @ \ {"road-noise"},
                                 !.rn_layer = FALSE,
                                 !.rn_visible = FALSE], "road-noise")

RoadNoiseLayer_setMetricKeepingOld(w, layerName) ==
    IF layerName \notin METRICS THEN w
    ELSE LET m == [w EXCEPT !.rn_metric = layerName]
         IN  IF m.rn_visible /\ m.rn_layer
             THEN Legend_render([Fresh(m, "road-noise")
                                    EXCEPT !.onMap = @ \cup {"road-noise"}],
                                "road-noise")
             ELSE m

RoadNoiseLayer_setMetric(w, layerName) ==
    IF layerName \notin METRICS THEN w
    ELSE LET m == [w EXCEPT !.rn_metric = layerName]
         IN  IF m.rn_visible /\ m.rn_layer
             THEN Legend_render(
                      [Fresh([m EXCEPT !.onMap = @ \ {"road-noise"}], "road-noise")
                          EXCEPT !.onMap = @ \cup {"road-noise"}],
                      "road-noise")
             ELSE m

(* FloodRiskLayer *)

FloodRiskLayer_applyMode(w) ==
    LET cleared == Legend_remove(
                       Legend_remove([w EXCEPT !.onMap = @ \ {"flood-rs", "flood-sw"}],
                                     "flood-rs"),
                       "flood-sw")
        withRS  == IF w.flood_mode \in {"rs", "both"}
                   THEN Legend_render([Fresh(cleared, "flood-rs") EXCEPT
                                           !.onMap = @ \cup {"flood-rs"}],
                                      "flood-rs")
                   ELSE cleared
    IN  IF w.flood_mode \in {"sw", "both"}
        THEN Legend_render([Fresh(withRS, "flood-sw") EXCEPT
                                !.onMap = @ \cup {"flood-sw"}],
                           "flood-sw")
        ELSE withRS

FloodRiskLayer_init(w) ==
    Legend_render([Fresh(w, "flood-rs") EXCEPT
                            !.flood_map = TRUE,
                            !.onMap = @ \cup {"flood-rs"},
                            !.flood_visible = TRUE], "flood-rs")

FloodRiskLayer_show(w) ==
    IF ~w.flood_map \/ w.flood_visible THEN w
    ELSE FloodRiskLayer_applyMode([w EXCEPT !.flood_visible = TRUE])

FloodRiskLayer_hide(w) ==
    IF ~w.flood_map \/ ~w.flood_visible THEN w
    ELSE Legend_remove(
             Legend_remove([w EXCEPT !.onMap = @ \ {"flood-rs", "flood-sw"},
                                     !.flood_visible = FALSE], "flood-rs"),
             "flood-sw")

FloodRiskLayer_setMode(w, mode) ==
    IF mode \notin {"rs", "sw", "both"} THEN w
    ELSE LET m == [w EXCEPT !.flood_mode = mode]
         IN  IF m.flood_visible THEN FloodRiskLayer_applyMode(m) ELSE m

(* CombinedScoreLayer *)

HasGeometry(x) == x.lsoa.geometry # Null

BuildLayerWithVisibleStations(w) ==
    LET stations == IF w.air_visible THEN w.air_stations ELSE <<>>
        lsoaData == w.dep_data
        features == [i \in 1..Len(lsoaData) |->
                        [lsoa |-> lsoaData[i]] @@ Feature(lsoaData[i], stations)]
    IN  [raised |-> \E i \in 1..Len(features) : features[i].raised,
         group  |-> SelectSeq(features, HasGeometry)]

(* _buildLayer: one feature per entry of DeprivationLayer._data, scored *)
(* against AirQualityLayer._stations; entries without geometry are not  *)
(* drawn.                                                               *)
CombinedScoreLayer_buildLayer(w) ==
    LET stations == w.air_stations
        lsoaData == w.dep_data
        features == [i \in 1..Len(lsoaData) |->
                        [lsoa |-> lsoaData[i]] @@ Feature(lsoaData[i], stations)]
    IN  [raised |-> \E i \in 1..Len(features) : features[i].raised,
         group  |-> SelectSeq(features, HasGeometry)]

CombinedScoreLayer_init(w) == [w EXCEPT !.comb_map = TRUE]

CombinedScoreLayer_show(w) ==
    IF ~w.comb_map \/ w.comb_visible THEN w
    ELSE LET built == CombinedScoreLayer_buildLayer(w)
         IN  IF built.raised THEN w
             ELSE Legend_render([Fresh(w, "combined") EXCEPT
                                          !.comb_layer = Some(built.group),
                                          !.onMap = @ \cup {"combined"},
                                          !.comb_visible = TRUE], "combined")

CombinedScoreLayer_hide(w) ==
    IF ~w.comb_map \/ ~w.comb_visible THEN w
    ELSE Legend_remove([w EXCEPT !.onMap = @ \ {"combined"},
                                 !.comb_layer = Null,
                                 !.comb_visible = FALSE], "combined")

(* app.js *)

_setIndividualLayersVisibleSwapped(w, airOn, noiseOn, roadNoiseOn, floodOn, depOn) ==
    LET w1 == IF airOn THEN AirQualityLayer_show(w) ELSE AirQualityLayer_hide(w)
        w2 == IF roadNoiseOn THEN NoiseLayer_show(w1) ELSE NoiseLayer_hide(w1)
        w3 == IF noiseOn THEN RoadNoiseLayer_show(w2) ELSE RoadNoiseLayer_hide(w2)
        w4 == IF floodOn THEN FloodRiskLayer_show(w3) ELSE FloodRiskLayer_hide(w3)
    IN  IF depOn THEN DeprivationLayer_show(w4) ELSE DeprivationLayer_hide(w4)

_setIndividualLayersVisible(w, airOn, noiseOn, roadNoiseOn, floodOn, depOn) ==
    LET w1 == IF airOn THEN AirQualityLayer_show(w) ELSE AirQualityLayer_hide(w)
        w2 == IF noiseOn THEN NoiseLayer_show(w1) ELSE NoiseLayer_hide(w1)
        w3 == IF roadNoiseOn THEN RoadNoiseLayer_show(w2) ELSE RoadNoiseLayer_hide(w2)
        w4 == IF floodOn THEN FloodRiskLayer_show(w3) ELSE FloodRiskLayer_hide(w3)
    IN  IF depOn THEN DeprivationLayer_show(w4) ELSE DeprivationLayer_hide(w4)

(* The change listeners.  The browser has flipped the checkbox (or selected *)
(* the radio) before the listener runs.                                     *)

OnToggleAir(w) ==
    LET d == [w EXCEPT !.chk_air = ~@]
    IN  IF d.chk_combined THEN d
        ELSE IF d.chk_air THEN AirQualityLayer_show(d) ELSE AirQualityLayer_hide(d)

OnToggleNoise(w) ==
    LET d == [w EXCEPT !.chk_noise = ~@]
    IN  IF d.chk_combined THEN d
        ELSE IF d.chk_noise THEN NoiseLayer_show(d) ELSE NoiseLayer_hide(d)

OnToggleRoadNoiseUnguarded(w) ==
    LET d == [w EXCEPT !.chk_rn = ~@]
    IN  IF d.chk_rn
        THEN [RoadNoiseLayer_show(d) EXCEPT !.rn_sub_hidden = FALSE]
        ELSE [RoadNoiseLayer_hide(d) EXCEPT !.rn_sub_hidden = TRUE]

OnToggleRoadNoise(w) ==
    LET d == [w EXCEPT !.chk_rn = ~@]
    IN  IF d.chk_combined THEN d
        ELSE IF d.chk_rn
             THEN [RoadNoiseLayer_show(d) EXCEPT !.rn_sub_hidden = FALSE]
             ELSE [RoadNoiseLayer_hide(d) EXCEPT !.rn_sub_hidden = TRUE]

OnRoadNoiseMetric(w, value) == RoadNoiseLayer_setMetric(w, value)

OnToggleFlood(w) ==
    LET d == [w EXCEPT !.chk_flood = ~@]
    IN  IF d.chk_combined THEN d
        ELSE IF d.chk_flood
             THEN [FloodRiskLayer_show(d) EXCEPT !.flood_sub_hidden = FALSE]
             ELSE [FloodRiskLayer_hide(d) EXCEPT !.flood_sub_hidden = TRUE]

OnFloodMode(w, value) == FloodRiskLayer_setMode(w, value)

OnToggleDeprivation(w) ==
    LET d == [w EXCEPT !.chk_dep = ~@]
    IN  IF d.chk_combined THEN d
        ELSE IF d.chk_dep THEN DeprivationLayer_show(d) ELSE DeprivationLayer_hide(d)

OnToggleCombined(w) ==
    LET d == [w EXCEPT !.chk_combined = ~@]
    IN  IF d.chk_combined
        THEN LET saved == [air       |-> d.chk_air,
                           noise     |-> d.chk_noise,
                           roadNoise |-> d.chk_rn,
                           flood     |-> d.chk_flood,
                           dep       |-> d.chk_dep]
             IN  CombinedScoreLayer_show(
                     DeprivationLayer_hide(
                         FloodRiskLayer_hide(
                             RoadNoiseLayer_hide(
                                 NoiseLayer_hide(
                                     AirQualityLayer_hide(
                                         [d EXCEPT !.stateBeforeCombined = Some(saved)]))))))
        ELSE LET h == CombinedScoreLayer_hide(d)
             IN  IF h.stateBeforeCombined # Null
                 THEN LET saved == Val(h.stateBeforeCombined)
                      IN  [_setIndividualLayersVisible(h, saved.air, saved.noise,
                               saved.roadNoise, saved.flood, saved.dep)
                             EXCEPT !.chk_air = saved.air,
                                    !.chk_noise = saved.noise,
                                    !.chk_rn = saved.roadNoise,
                                    !.chk_flood = saved.flood,
                                    !.chk_dep = saved.dep,
                                    !.rn_sub_hidden = ~saved.roadNoise,
                                    !.flood_sub_hidden = ~saved.flood,
                                    !.stateBeforeCombined = Null]
                 ELSE DeprivationLayer_show(
                          FloodRiskLayer_show(
                              RoadNoiseLayer_show(
                                  NoiseLayer_show(AirQualityLayer_show(h)))))

(* The page once app.js has run: the six layers initialised in script order, *)
(* both fetches under way                                                    *)
AppStarted ==
    CombinedScoreLayer_init(
        DeprivationLayer_init(
            FloodRiskLayer_init(
                RoadNoiseLayer_init(
                    NoiseLayer_init(AirQualityLayer_init(AppIdle))))))

(* Which of the five individual layers have a Leaflet layer on the map *)
LayersOnMap(w) ==
    { l \in {"air", "noise", "road-noise", "dep"} : l \in w.onMap }
        \cup (IF w.onMap \cap {"flood-rs", "flood-sw"} # {} THEN {"flood"} ELSE {})

Checkboxes(w) == <<w.chk_air, w.chk_noise, w.chk_rn, w.chk_flood, w.chk_dep>>

(* The history kept of toggle-combined: what the step that checks it found;  *)
(* closed, with the checkboxes as they were left, by the step that unchecks  *)
(* it; dropped by the step after that.                                       *)
Snapshot(w, w2, hist) ==
    IF ~w.chk_combined /\ w2.chk_combined
    THEN Some([onMap   |-> LayersOnMap(w),
               checked |-> Checkboxes(w),
               left    |-> Checkboxes(w),
               open    |-> TRUE])
    ELSE IF w.chk_combined /\ ~w2.chk_combined
    THEN Some([Val(hist) EXCEPT !.left = Checkboxes(w), !.open = FALSE])
    ELSE IF ~w2.chk_combined THEN Null
    ELSE hist

(* The history kept of _buildLayer: when a step takes the combined layer from *)
(* hidden to shown, show has run _buildLayer on the stations and regions held *)
(* before the step.                                                           *)
Recorded(w, w2, hist) ==
    IF ~w.comb_visible /\ w2.comb_visible
    THEN << [stations |-> w.air_stations,
             data     |-> w.dep_data,
             layer    |-> Val(w2.comb_layer)] >>
            \o (IF hist = <<>> THEN <<>> ELSE << hist[1] >>)
    ELSE hist

-----------------------------------------------------------------------------
(* Input domains *)

StationNames == <<"S1", "S2", "S3", "S4">>

(* Mappings of at most n stations with positions in pts; the key of the i-th *)
(* entry in iteration order is StationNames[i].  The first entry's maxAQI    *)
(* ranges over aqis1, the later entries' over aqisRest.                      *)
StationMaps(n, pts, aqis1, aqisRest) ==
    UNION { { [i \in 1..k |-> [name   |-> StationNames[i],
                               lat    |-> p[i][1],
                               lng    |-> p[i][2],
                               maxAQI |-> IF i = 1 THEN a1 ELSE r[i]]] :
                p \in [1..k -> pts], a1 \in aqis1, r \in [2..k -> aqisRest] }
            : k \in 0..n }

Deciles == {Null} \cup { Some(d) : d \in 0..11 }

MaxAQIs == {Null} \cup { Some(v) : v \in -1..11 }

LaterAQIs == { Null, Some(7) }

ScoreStationPoints == { <<RInt(0), RInt(0)>>, <<RInt(0), RInt(60)>> }

ScoreCentroids ==
    { Null, Some(<<RInt(0), RInt(0)>>), Some(<<RInt(60), RInt(60)>>) }

GridPoints ==
    { <<RInt(lat), RInt(lng)>> : lat \in {-60, 0, 60}, lng \in {0, 60, 120, 180} }

(* Positions <<lng, lat>> of the centroid harness *)
Positions == { <<0, 0>>, <<0, 2>>, <<2, 2>>, <<2, 0>> }

RingsUpTo(n) == UNION { [1..k -> Positions] : k \in 0..n }

HoleRing == << <<7, 9>>, <<9, 7>> >>

(* A polygon: no ring at all, or an outer ring with or without a hole *)
Polygons == { <<>> } \cup { <<r>> : r \in RingsUpTo(MaxRingLen) }
                     \cup { <<r, HoleRing>> : r \in RingsUpTo(MaxRingLen) }

MultiMembers ==
    { <<>>,
      << <<>> >>,
      << << <<0, 2>> >> >>,
      << << <<0, 0>>, <<2, 2>>, <<2, 0>> >> >>,
      << << <<2, 0>>, <<0, 0>> >>, HoleRing >> }

MultiPolygons == UNION { [1..k -> MultiMembers] : k \in 0..MaxPolys }

NoGeometry == [type |-> "Point", coordinates |-> <<>>]

NoCentroid == [raised |-> FALSE, value |-> Null]

NoLsoa == [imd_decile |-> Null, centroid |-> Null]

NoPoint == <<RInt(0), RInt(0)>>

NoDist == [ab |-> 0, ba |-> 0, aa |-> 0]

NoColor == [r |-> 0, g |-> 0, b |-> 0]

(* Scores on a grid of 1/ScoreGrid, from below 0 to above 1, with -5 and 5, *)
(* the stop positions and the midpoints between them                        *)
ColorScores ==
    { (k * 1000000) \div ScoreGrid : k \in (0 - ScoreGrid)..(2 * ScoreGrid) }
        \cup { -5000000, 5000000 }
        \cup { 125000 * j : j \in 0..8 }

AirQualityIndices == { JsNull, JsNaN } \cup { JsNum(n) : n \in -1..3 }

(* aqiMap[code]: absent, or an entry with at most n pollutants *)
AqiEntries(n) ==
    { Null } \cup
    { Some([pollutants |-> [i \in 1..Len(x) |-> [AirQualityIndex |-> x[i]]]]) :
          x \in UNION { [1..k -> AirQualityIndices] : k \in 0..n } }

(* The harnesses that are not under call *)
ScoreIdle == arg_lsoa = NoLsoa /\ arg_stations = <<>> /\ ret_feature = NoFeature

NearestIdle == arg_point = NoPoint /\ arg_cands = <<>> /\ ret_nearest = Null

CentroidIdle == arg_geometry = NoGeometry /\ ret_centroid = NoCentroid

DistanceIdle == arg_a = NoPoint /\ arg_b = NoPoint /\ ret_dist = NoDist

ColorIdle == arg_score = 0 /\ ret_color = NoColor

MaxAQIIdle == arg_aqiData = Null /\ ret_maxAQI = Null

-----------------------------------------------------------------------------
(* The map callback applied to one region and one station mapping *)

InitScore ==
    /\ pc = "score_ready"
    /\ arg_lsoa \in [imd_decile : Deciles, centroid : ScoreCentroids]
    /\ arg_stations \in StationMaps(MaxStations, ScoreStationPoints, MaxAQIs, LaterAQIs)
    /\ ret_feature = NoFeature
    /\ arg_point = NoPoint
    /\ arg_cands = <<>>
    /\ ret_nearest = Null
    /\ arg_geometry = NoGeometry
    /\ ret_centroid = NoCentroid
    /\ DistanceIdle
    /\ ColorIdle
    /\ MaxAQIIdle
    /\ app = AppIdle
    /\ builds = <<>>
    /\ before = Null

ComputeScore ==
    /\ pc = "score_ready"
    /\ pc' = "score_done"
    /\ ret_feature' = Feature(arg_lsoa, arg_stations)
    /\ UNCHANGED <<arg_lsoa, arg_stations, arg_point, arg_cands, ret_nearest,
                   arg_geometry, ret_centroid, distanceVars, colorVars, maxAQIVars,
                   app, builds, before>>

NextScore == ComputeScore

SpecScore == InitScore /\ [][NextScore]_vars

-----------------------------------------------------------------------------
(* _nearestStation applied to one point and one candidate mapping *)

InitNearest ==
    /\ pc = "nearest_ready"
    /\ arg_point \in GridPoints
    /\ arg_cands \in StationMaps(MaxStations, GridPoints, {Null}, {Null})
    /\ ret_nearest = Null
    /\ arg_lsoa = NoLsoa
    /\ arg_stations = <<>>
    /\ ret_feature = NoFeature
    /\ arg_geometry = NoGeometry
    /\ ret_centroid = NoCentroid
    /\ DistanceIdle
    /\ ColorIdle
    /\ MaxAQIIdle
    /\ app = AppIdle
    /\ builds = <<>>
    /\ before = Null

CallNearest ==
    /\ pc = "nearest_ready"
    /\ pc' = "nearest_done"
    /\ ret_nearest' = _nearestStation(arg_point[1], arg_point[2], arg_cands)
    /\ UNCHANGED <<arg_lsoa, arg_stations, ret_feature, arg_point, arg_cands,
                   arg_geometry, ret_centroid, distanceVars, colorVars, maxAQIVars,
                   app, builds, before>>

NextNearest == CallNearest

SpecNearest == InitNearest /\ [][NextNearest]_vars

-----------------------------------------------------------------------------
(* _centroid applied to one geometry *)

InitCentroid ==
    /\ pc = "centroid_ready"
    /\ \/ \E c \in Polygons : arg_geometry = [type |-> "Polygon", coordinates |-> c]
       \/ \E c \in MultiPolygons :
             arg_geometry = [type |-> "MultiPolygon", coordinates |-> c]
       \/ arg_geometry = [type |-> "Point", coordinates |-> <<2, 0>>]
    /\ ret_centroid = NoCentroid
    /\ arg_lsoa = NoLsoa
    /\ arg_stations = <<>>
    /\ ret_feature = NoFeature
    /\ arg_point = NoPoint
    /\ arg_cands = <<>>
    /\ ret_nearest = Null
    /\ DistanceIdle
    /\ ColorIdle
    /\ MaxAQIIdle
    /\ app = AppIdle
    /\ builds = <<>>
    /\ before = Null

CallCentroid ==
    /\ pc = "centroid_ready"
    /\ pc' = "centroid_done"
    /\ ret_centroid' = _centroid(arg_geometry)
    /\ UNCHANGED <<arg_lsoa, arg_stations, ret_feature, arg_point, arg_cands,
                   ret_nearest, arg_geometry, distanceVars, colorVars, maxAQIVars,
                   app, builds, before>>

NextCentroid == CallCentroid

SpecCentroid == InitCentroid /\ [][NextCentroid]_vars

-----------------------------------------------------------------------------
(* _haversine applied to two points, in both orders, and to a point and *)
(* itself                                                               *)

InitHaversine ==
    /\ pc = "haversine_ready"
    /\ arg_a \in GridPoints
    /\ arg_b \in GridPoints
    /\ ret_dist = NoDist
    /\ ScoreIdle
    /\ NearestIdle
    /\ CentroidIdle
    /\ ColorIdle
    /\ MaxAQIIdle
    /\ app = AppIdle
    /\ builds = <<>>
    /\ before = Null

CallHaversine ==
    /\ pc = "haversine_ready"
    /\ pc' = "haversine_done"
    /\ ret_dist' = [ab |-> _haversine(arg_a[1], arg_a[2], arg_b[1], arg_b[2]),
                    ba |-> _haversine(arg_b[1], arg_b[2], arg_a[1], arg_a[2]),
                    aa |-> _haversine(arg_a[1], arg_a[2], arg_a[1], arg_a[2])]
    /\ UNCHANGED <<arg_lsoa, arg_stations, ret_feature, arg_point, arg_cands,
                   ret_nearest, arg_geometry, ret_centroid, arg_a, arg_b, colorVars,
                   maxAQIVars, app, builds, before>>

NextHaversine == CallHaversine

SpecHaversine == InitHaversine /\ [][NextHaversine]_vars

-----------------------------------------------------------------------------
(* _scoreColor applied to one score *)

InitColor ==
    /\ pc = "color_ready"
    /\ arg_score \in ColorScores
    /\ ret_color = NoColor
    /\ ScoreIdle
    /\ NearestIdle
    /\ CentroidIdle
    /\ DistanceIdle
    /\ MaxAQIIdle
    /\ app = AppIdle
    /\ builds = <<>>
    /\ before = Null

CallScoreColor ==
    /\ pc = "color_ready"
    /\ pc' = "color_done"
    /\ ret_color' = _scoreColor(arg_score)
    /\ UNCHANGED <<arg_lsoa, arg_stations, ret_feature, arg_point, arg_cands,
                   ret_nearest, arg_geometry, ret_centroid, distanceVars,
                   arg_score, maxAQIVars, app, builds, before>>

NextColor == CallScoreColor

SpecColor == InitColor /\ [][NextColor]_vars

-----------------------------------------------------------------------------
(* The maxAQI AirQualityLayer._buildLayer stores for one station *)

InitMaxAQI ==
    /\ pc = "maxAQI_ready"
    /\ arg_aqiData \in AqiEntries(MaxPollutants)
    /\ ret_maxAQI = Null
    /\ ScoreIdle
    /\ NearestIdle
    /\ CentroidIdle
    /\ DistanceIdle
    /\ ColorIdle
    /\ app = AppIdle
    /\ builds = <<>>
    /\ before = Null

CallMaxAQI ==
    /\ pc = "maxAQI_ready"
    /\ pc' = "maxAQI_done"
    /\ ret_maxAQI' = StationMaxAQI(arg_aqiData)
    /\ UNCHANGED <<arg_lsoa, arg_stations, ret_feature, arg_point, arg_cands,
                   ret_nearest, arg_geometry, ret_centroid, distanceVars,
                   colorVars, arg_aqiData, app, builds, before>>

NextMaxAQI == CallMaxAQI

SpecMaxAQI == InitMaxAQI /\ [][NextMaxAQI]_vars

-----------------------------------------------------------------------------
(* The layer modules that carry data, driven through their public operations *)
(* and the completion of their fetches.                                      *)

RegionCodes == <<"E1", "E2", "E3", "E4">>

(* Boundaries whose vertex mean falls on the grid of _haversine *)
RegionGeometries ==
    { [type |-> "Polygon", coordinates |-> << << <<0, 0>> >> >>],
      [type |-> "Polygon", coordinates |-> << << <<0, 0>>, <<120, 120>> >> >>],
      [type |-> "Polygon", coordinates |-> << <<>> >>] }

RegionDeciles == { Null, Some(1), Some(10) }

(* The feature collections the deprivation fetch may resolve with *)
GeoJsons ==
    UNION { { [i \in 1..k |-> [lsoa_code  |-> RegionCodes[i],
                               imd_decile |-> d[i],
                               geometry   |-> g[i]]] :
                d \in [1..k -> RegionDeciles], g \in [1..k -> RegionGeometries] }
            : k \in 0..MaxRegions }

(* The station mappings the air-quality fetch may leave in _stations *)
LoadedStations == StationMaps(1, ScoreStationPoints, { Null, Some(10) }, { Null })

InitLayers ==
    /\ app = AppIdle
    /\ builds = <<>>
    /\ before = Null
    /\ pc = "page"
    /\ arg_lsoa = NoLsoa
    /\ arg_stations = <<>>
    /\ ret_feature = NoFeature
    /\ arg_point = NoPoint
    /\ arg_cands = <<>>
    /\ ret_nearest = Null
    /\ arg_geometry = NoGeometry
    /\ ret_centroid = NoCentroid
    /\ DistanceIdle
    /\ ColorIdle
    /\ MaxAQIIdle

AirInit ==
    /\ app.air_load = "idle"
    /\ app' = AirQualityLayer_init(app)
    /\ builds' = Recorded(app, app', builds)
    /\ UNCHANGED <<harness, before>>

AirLoaded ==
    /\ app.air_load = "pending"
    /\ \E stations \in LoadedStations : app' = AirQualityLayer_loaded(app, stations)
    /\ builds' = Recorded(app, app', builds)
    /\ UNCHANGED <<harness, before>>

AirFailed ==
    /\ app.air_load = "pending"
    /\ app' = AirQualityLayer_failed(app)
    /\ builds' = Recorded(app, app', builds)
    /\ UNCHANGED <<harness, before>>

AirShow ==
    /\ app' = AirQualityLayer_show(app)
    /\ builds' = Recorded(app, app', builds)
    /\ UNCHANGED <<harness, before>>

AirHide ==
    /\ app' = AirQualityLayer_hide(app)
    /\ builds' = Recorded(app, app', builds)
    /\ UNCHANGED <<harness, before>>

DepInit ==
    /\ app.dep_load = "idle"
    /\ app' = DeprivationLayer_init(app)
    /\ builds' = Recorded(app, app', builds)
    /\ UNCHANGED <<harness, before>>

DepLoaded ==
    /\ app.dep_load = "pending"
    /\ \E geojson \in GeoJsons : app' = DeprivationLayer_loaded(app, geojson)
    /\ builds' = Recorded(app, app', builds)
    /\ UNCHANGED <<harness, before>>

DepFailed ==
    /\ app.dep_load = "pending"
    /\ app' = DeprivationLayer_failed(app)
    /\ builds' = Recorded(app, app', builds)
    /\ UNCHANGED <<harness, before>>

DepShow ==
    /\ app' = DeprivationLayer_show(app)
    /\ builds' = Recorded(app, app', builds)
    /\ UNCHANGED <<harness, before>>

DepHide ==
    /\ app' = DeprivationLayer_hide(app)
    /\ builds' = Recorded(app, app', builds)
    /\ UNCHANGED <<harness, before>>

CombInit ==
    /\ ~app.comb_map
    /\ app' = CombinedScoreLayer_init(app)
    /\ builds' = Recorded(app, app', builds)
    /\ UNCHANGED <<harness, before>>

CombShow ==
    /\ app' = CombinedScoreLayer_show(app)
    /\ builds' = Recorded(app, app', builds)
    /\ UNCHANGED <<harness, before>>

CombHide ==
    /\ app' = CombinedScoreLayer_hide(app)
    /\ builds' = Recorded(app, app', builds)
    /\ UNCHANGED <<harness, before>>

NextLayers ==
    \/ AirInit \/ AirLoaded \/ AirFailed \/ AirShow \/ AirHide
    \/ DepInit \/ DepLoaded \/ DepFailed \/ DepShow \/ DepHide
    \/ CombInit \/ CombShow \/ CombHide

SpecLayers == InitLayers /\ [][NextLayers]_vars

-----------------------------------------------------------------------------
(* The tile-layer modules and the combined layer, driven through their *)
(* public operations in any order, init included.                      *)

InitModules ==
    /\ app = AppIdle
    /\ pc = "modules"
    /\ ScoreIdle
    /\ NearestIdle
    /\ CentroidIdle
    /\ DistanceIdle
    /\ ColorIdle
    /\ MaxAQIIdle
    /\ builds = <<>>
    /\ before = Null

(* What every call does to the histories and the harnesses *)
ModuleStep ==
    /\ builds' = Recorded(app, app', builds)
    /\ UNCHANGED <<harness, before>>

NoiseInit == ~app.noise_map /\ app' = NoiseLayer_init(app) /\ ModuleStep

NoiseShow == app' = NoiseLayer_show(app) /\ ModuleStep

NoiseHide == app' = NoiseLayer_hide(app) /\ ModuleStep

RoadNoiseInit == ~app.rn_map /\ app' = RoadNoiseLayer_init(app) /\ ModuleStep

RoadNoiseShow == app' = RoadNoiseLayer_show(app) /\ ModuleStep

RoadNoiseHide == app' = RoadNoiseLayer_hide(app) /\ ModuleStep

RoadNoiseSetMetric ==
    (\E layerName \in METRICS \cup {"RD_OTHER"} :
        app' = RoadNoiseLayer_setMetric(app, layerName)) /\ ModuleStep

FloodInit == ~app.flood_map /\ app' = FloodRiskLayer_init(app) /\ ModuleStep

FloodShow == app' = FloodRiskLayer_show(app) /\ ModuleStep

FloodHide == app' = FloodRiskLayer_hide(app) /\ ModuleStep

FloodSetMode ==
    (\E mode \in {"rs", "sw", "both", "other"} :
        app' = FloodRiskLayer_setMode(app, mode)) /\ ModuleStep

NextModules ==
    \/ NoiseInit \/ NoiseShow \/ NoiseHide
    \/ RoadNoiseInit \/ RoadNoiseShow \/ RoadNoiseHide \/ RoadNoiseSetMetric
    \/ FloodInit \/ FloodShow \/ FloodHide \/ FloodSetMode
    \/ CombInit \/ CombShow \/ CombHide

SpecModules == InitModules /\ [][NextModules]_vars

-----------------------------------------------------------------------------
(* The page: the change events of the toggles and radios, and the completion *)
(* of the two fetches, in any order.                                         *)

(* What the deprivation fetch may resolve with on the page *)
AppGeoJsons ==
    { << [lsoa_code  |-> "E1", imd_decile |-> Some(1),
          geometry   |-> [type |-> "Polygon", coordinates |-> << << <<0, 0>> >> >>]],
         [lsoa_code  |-> "E2", imd_decile |-> Some(10),
          geometry   |-> [type |-> "Polygon",
                          coordinates |-> << << <<0, 0>>, <<120, 120>> >> >>]] >> }

(* What the air-quality fetch may leave in _stations on the page *)
AppStations ==
    { << [name |-> "S1", lat |-> RInt(0), lng |-> RInt(0), maxAQI |-> Some(10)] >> }

InitApp ==
    /\ app = AppStarted
    /\ pc = "app"
    /\ ScoreIdle
    /\ NearestIdle
    /\ CentroidIdle
    /\ DistanceIdle
    /\ ColorIdle
    /\ MaxAQIIdle
    /\ builds = <<>>
    /\ before = Null

(* What every step of the page does to the histories and the harnesses; the *)
(* history of _buildLayer is not kept here                                  *)
PageStep ==
    /\ before' = Snapshot(app, app', before)
    /\ UNCHANGED <<harness, builds>>

ToggleAir == app' = OnToggleAir(app) /\ PageStep

ToggleNoise == app' = OnToggleNoise(app) /\ PageStep

ToggleRoadNoise == app' = OnToggleRoadNoise(app) /\ PageStep

RoadNoiseMetric == (\E value \in METRICS : app' = OnRoadNoiseMetric(app, value)) /\ PageStep

ToggleFlood == app' = OnToggleFlood(app) /\ PageStep

FloodMode ==
    (\E value \in {"rs", "sw", "both"} : app' = OnFloodMode(app, value)) /\ PageStep

ToggleDeprivation == app' = OnToggleDeprivation(app) /\ PageStep

ToggleCombined == app' = OnToggleCombined(app) /\ PageStep

AirResolved ==
    /\ app.air_load = "pending"
    /\ \E stations \in AppStations : app' = AirQualityLayer_loaded(app, stations)
    /\ PageStep

AirRejected ==
    /\ app.air_load = "pending"
    /\ app' = AirQualityLayer_failed(app)
    /\ PageStep

DepResolved ==
    /\ app.dep_load = "pending"
    /\ \E geojson \in AppGeoJsons : app' = DeprivationLayer_loaded(app, geojson)
    /\ PageStep

DepRejected ==
    /\ app.dep_load = "pending"
    /\ app' = DeprivationLayer_failed(app)
    /\ PageStep

NextApp ==
    \/ ToggleAir \/ ToggleNoise \/ ToggleRoadNoise \/ RoadNoiseMetric
    \/ ToggleFlood \/ FloodMode \/ ToggleDeprivation \/ ToggleCombined
    \/ AirResolved \/ AirRejected \/ DepResolved \/ DepRejected

SpecApp == InitApp /\ [][NextApp]_vars

-----------------------------------------------------------------------------
(* Properties of the score computation (SpecScore) *)

ScoreDone == pc = "score_done"

Decile == arg_lsoa.imd_decile

Matched == ret_feature.nearestSt

InUnit(x) == 0 <= x /\ x <= 1000

(* C1: for every region and station mapping, out-of-range decile and maxAQI *)
(* included, the three components and the combined score lie in [0,1].      *)
C1_ComponentsInUnitInterval ==
    (ScoreDone /\ ~ret_feature.raised) =>
        /\ InUnit(ret_feature.depComp)
        /\ InUnit(ret_feature.aqComp)
        /\ InUnit(ret_feature.noiseComp)
        /\ 0 <= ret_feature.score /\ ret_feature.score <= 1000 * 1000

(* C2: for a decile in 1..10 or absent and a matched maxAQI in 0..10 or      *)
(* absent, score = 0.4*depComp + 0.4*aqComp + 0.2*0.5; decile 1 with maxAQI  *)
(* 10 gives 0.90, decile 10 with no stations 0.34, nothing at all 0.5 with   *)
(* the three components 0.5.                                                 *)
C2_WeightedSum ==
    (/\ ScoreDone
     /\ (Decile = Null \/ Val(Decile) \in 1..10)
     /\ (Matched = Null \/ Val(Matched).maxAQI = Null
           \/ Val(Val(Matched).maxAQI) \in 0..10)) =>
        /\ ~ret_feature.raised
        /\ ret_feature.score =
              400 * ret_feature.depComp + 400 * ret_feature.aqComp + 200 * 500
        /\ (Decile = Some(1) /\ Matched # Null /\ Val(Matched).maxAQI = Some(10))
              => ret_feature.score = 900000
        /\ (Decile = Some(10) /\ arg_stations = <<>>)
              => ret_feature.score = 340000
        /\ (Decile = Null /\ arg_stations = <<>>)
              => /\ ret_feature.score = 500000
                 /\ ret_feature.depComp = 500
                 /\ ret_feature.aqComp = 500
                 /\ ret_feature.noiseComp = 500

C2_Witness ==
    /\ ScoreDone
    /\ Decile = Some(1)
    /\ Matched # Null
    /\ Val(Matched).maxAQI = Some(10)
    /\ ret_feature.score = 900000

(* C3: depComp = (11 - decile)/10 when the decile is present (1 gives 1.0, *)
(* 10 gives 0.1) and 0.5 when it is absent.                                *)
C3_DeprivationComponent ==
    (ScoreDone /\ ~ret_feature.raised) =>
        /\ Decile # Null => 10 * ret_feature.depComp = (11 - Val(Decile)) * 1000
        /\ Decile = Some(1)  => ret_feature.depComp = 1000
        /\ Decile = Some(10) => ret_feature.depComp = 100
        /\ Decile = Null => ret_feature.depComp = 500

C3_Witness ==
    /\ ScoreDone
    /\ Decile = Some(10)
    /\ ret_feature.depComp = 100

(* C4: with a non-empty station mapping and a defined centroid, the matched  *)
(* station is the one the nearest-station search returns from the centroid,  *)
(* and aqComp is min(maxAQI/10, 1) if its maxAQI is defined, else 0.5.       *)
C4_MatchedStationAndAirQuality ==
    (ScoreDone /\ arg_stations # <<>> /\ arg_lsoa.centroid # Null) =>
        /\ ~ret_feature.raised
        /\ Matched # Null
        /\ Matched = _nearestStation(Val(arg_lsoa.centroid)[1],
                                     Val(arg_lsoa.centroid)[2], arg_stations)
        /\ ret_feature.aqComp =
              IF Val(Matched).maxAQI = Null THEN 500
              ELSE IF Val(Val(Matched).maxAQI) <= 10
                   THEN 100 * Val(Val(Matched).maxAQI)
                   ELSE 1000

C4_Witness ==
    /\ ScoreDone
    /\ Len(arg_stations) >= 2
    /\ arg_lsoa.centroid # Null
    /\ Matched = Some(arg_stations[2])
    /\ arg_stations[1].maxAQI = Some(11)
    /\ ret_feature.aqComp = 700

(* C5: with an empty station mapping or an undefined centroid, aqComp is 0.5 *)
(* and the matched station is null, whatever the other inputs are.           *)
C5_NoStationNoCentroid ==
    (ScoreDone /\ (arg_stations = <<>> \/ arg_lsoa.centroid = Null)) =>
        /\ ~ret_feature.raised
        /\ ret_feature.aqComp = 500
        /\ Matched = Null

C5_Witness ==
    /\ ScoreDone
    /\ arg_lsoa.centroid = Null
    /\ arg_stations # <<>>
    /\ arg_stations[1].maxAQI = Some(10)
    /\ ~ret_feature.raised
    /\ ret_feature.aqComp = 500

(* C7: the score computation never raises; absent decile, absent centroid,  *)
(* empty mapping and a matched station without maxAQI all yield a breakdown *)
(* with the neutral defaults.                                               *)
C7_NeverRaises ==
    ScoreDone =>
        /\ ~ret_feature.raised
        /\ Decile = Null => ret_feature.depComp = 500
        /\ (Matched = Null \/ Val(Matched).maxAQI = Null)
              => ret_feature.aqComp = 500
        /\ ret_feature.noiseComp = 500

C7_Witness ==
    /\ ScoreDone
    /\ Decile = Null
    /\ arg_lsoa.centroid # Null
    /\ Matched # Null
    /\ Val(Matched).maxAQI = Null
    /\ ~ret_feature.raised
    /\ ret_feature.score = 500000

-----------------------------------------------------------------------------
(* Properties of the nearest-station search (SpecNearest) *)

NearestDone == pc = "nearest_done"

DistanceTo(i) ==
    _haversine(arg_point[1], arg_point[2], arg_cands[i].lat, arg_cands[i].lng)

(* C8: for a non-empty mapping the search returns a candidate no farther     *)
(* from the point than any other, the first in iteration order among those   *)
(* at the minimal distance.                                                  *)
C8_NearestIsFirstMinimum ==
    (NearestDone /\ arg_cands # <<>>) =>
        \E i \in 1..Len(arg_cands) :
            /\ ret_nearest = Some(arg_cands[i])
            /\ \A j \in 1..Len(arg_cands) :
                  /\ DistanceTo(i) <= DistanceTo(j)
                  /\ DistanceTo(j) = DistanceTo(i) => i <= j

C8_Witness ==
    /\ NearestDone
    /\ Len(arg_cands) = 2
    /\ <<arg_cands[1].lat, arg_cands[1].lng>> # <<arg_cands[2].lat, arg_cands[2].lng>>
    /\ DistanceTo(1) = DistanceTo(2)
    /\ ret_nearest = Some(arg_cands[1])

(* C9: the search returns null for an empty mapping and one of the *)
(* candidates, never null, for a non-empty one.                    *)
C9_NullIffEmpty ==
    NearestDone =>
        /\ arg_cands = <<>> => ret_nearest = Null
        /\ arg_cands # <<>> =>
              \E i \in 1..Len(arg_cands) : ret_nearest = Some(arg_cands[i])

C9_Witness ==
    /\ NearestDone
    /\ Len(arg_cands) = 2
    /\ DistanceTo(2) < DistanceTo(1)
    /\ ret_nearest = Some(arg_cands[2])

-----------------------------------------------------------------------------
(* Properties of the centroid (SpecCentroid) *)

CentroidDone == pc = "centroid_done"

(* The outer rings of a geometry's constituent polygons *)
OuterRings(g) ==
    IF g.type = "Polygon"
    THEN IF Len(g.coordinates) >= 1 THEN << g.coordinates[1] >> ELSE <<>>
    ELSE IF g.type = "MultiPolygon"
    THEN LET has == { p \in 1..Len(g.coordinates) : Len(g.coordinates[p]) >= 1 }
         IN  [p \in 1..Len(g.coordinates) |->
                 IF p \in has THEN g.coordinates[p][1] ELSE <<>>]
    ELSE <<>>

(* Where the outer-ring vertices sit: <<ring, index>> *)
OuterVertices(g) ==
    { <<p, j>> \in (1..Len(OuterRings(g))) \X (1..(MaxRingLen + 1)) :
          j <= Len(OuterRings(g)[p]) }

RECURSIVE SumOver(_, _, _)
SumOver(g, at, k) ==
    IF at = {} THEN 0
    ELSE LET v == CHOOSE x \in at : TRUE
         IN  OuterRings(g)[v[1]][v[2]][k] + SumOver(g, at \ {v}, k)

IsMeanOf(q, sum, n) == q[1] * n = sum * q[2]

(* C10: for a Polygon or MultiPolygon with at least one outer-ring vertex the *)
(* centroid is the plain mean of the lat and of the lng of every vertex of    *)
(* every constituent polygon's outer ring, holes ignored; the square (0,0),   *)
(* (0,2),(2,2),(2,0) gives (1,1).                                             *)
C10_CentroidIsVertexMean ==
    (/\ CentroidDone
     /\ arg_geometry.type \in {"Polygon", "MultiPolygon"}
     /\ OuterVertices(arg_geometry) # {}) =>
        LET at == OuterVertices(arg_geometry)
            n  == Cardinality(at)
        IN  /\ ~ret_centroid.raised
            /\ ret_centroid.value # Null
            /\ IsMeanOf(Val(ret_centroid.value)[1], SumOver(arg_geometry, at, 2), n)
            /\ IsMeanOf(Val(ret_centroid.value)[2], SumOver(arg_geometry, at, 1), n)
            /\ (arg_geometry.type = "Polygon" /\ arg_geometry.coordinates[1] =
                    << <<0, 0>>, <<0, 2>>, <<2, 2>>, <<2, 0>> >>)
                  => ret_centroid.value = Some(<<RInt(1), RInt(1)>>)

(* Every constituent polygon has an outer ring (possibly an empty one) *)
EveryPolygonHasOuterRing(g) ==
    g.type = "MultiPolygon" =>
        \A p \in 1..Len(g.coordinates) : Len(g.coordinates[p]) >= 1

(* The statement of C10 on the geometries whose polygons all have an outer *)
(* ring.                                                                   *)
CentroidIsVertexMeanOfRingedPolygons ==
    EveryPolygonHasOuterRing(arg_geometry) => C10_CentroidIsVertexMean

CentroidOfSquareReached ==
    /\ CentroidDone
    /\ arg_geometry.type = "Polygon"
    /\ Len(arg_geometry.coordinates) = 2
    /\ arg_geometry.coordinates[1] = << <<0, 0>>, <<0, 2>>, <<2, 2>>, <<2, 0>> >>
    /\ ret_centroid.value = Some(<<RInt(1), RInt(1)>>)

(* C11: the centroid is null, and nothing is raised, whenever the geometry   *)
(* has no vertex (empty outer ring, polygon without rings, multipolygon      *)
(* without polygons) or is of an unsupported type.                           *)
C11_NullWithoutRaising ==
    (/\ CentroidDone
     /\ \/ arg_geometry.type \notin {"Polygon", "MultiPolygon"}
        \/ OuterVertices(arg_geometry) = {}) =>
        /\ ~ret_centroid.raised
        /\ ret_centroid.value = Null

(* The cases of C11 in which _centroid does return null *)
NullForEmptyRingsAndOtherTypes ==
    (/\ CentroidDone
     /\ \/ arg_geometry.type \notin {"Polygon", "MultiPolygon"}
        \/ /\ OuterVertices(arg_geometry) = {}
           /\ EveryPolygonHasOuterRing(arg_geometry)
           /\ arg_geometry.type = "Polygon" => Len(arg_geometry.coordinates) >= 1) =>
        /\ ~ret_centroid.raised
        /\ ret_centroid.value = Null

-----------------------------------------------------------------------------
(* Properties of the great-circle distance (SpecHaversine) *)

HaversineDone == pc = "haversine_done"

(* C12: the distance from a to b equals the distance from b to a, and the *)
(* distance from a point to itself is zero.                               *)
C12_SymmetricAndZeroOnDiagonal ==
    HaversineDone =>
        /\ ret_dist.ab = ret_dist.ba
        /\ ret_dist.aa = 0
        /\ arg_a = arg_b => ret_dist.ab = 0

C12_Witness ==
    /\ HaversineDone
    /\ arg_a[1] # arg_b[1]
    /\ arg_a[2] # arg_b[2]
    /\ CosTwice(arg_a[1]) # CosTwice(arg_b[1])
    /\ ret_dist.ab = ret_dist.ba
    /\ ret_dist.ab > 0
    /\ ret_dist.aa = 0

-----------------------------------------------------------------------------
(* Properties of the colour interpolation (SpecColor) *)

ColorDone == pc = "color_done"

StopColor(stop) == [r |-> stop.r, g |-> stop.g, b |-> stop.b]

(* C13: for a scalar below 0 the colour is the colour at 0, the first stop's; *)
(* for a scalar above 1 it is the colour at 1, the last stop's.               *)
C13_ClampsToUnitInterval ==
    ColorDone =>
        /\ arg_score < 0 =>
              /\ ret_color = _scoreColor(0)
              /\ ret_color = StopColor(COLOR_STOPS[1])
        /\ arg_score > 1000000 =>
              /\ ret_color = _scoreColor(1000000)
              /\ ret_color = StopColor(COLOR_STOPS[Len(COLOR_STOPS)])

C13_Witness ==
    /\ ColorDone
    /\ arg_score = -5000000
    /\ ret_color = [r |-> 44, g |-> 160, b |-> 44]

Between(x, a, b) == (a <= x /\ x <= b) \/ (b <= x /\ x <= a)

(* C14: for a scalar in [0,1] the two stops interpolated between are adjacent *)
(* and bracket the scalar, and each rounded channel lies between the two      *)
(* stops' values of that channel.                                             *)
C14_NoOvershoot ==
    (ColorDone /\ 0 <= arg_score /\ arg_score <= 1000000) =>
        LET br == Bracket(COLOR_STOPS, ClampUnit(arg_score), 1)
        IN  /\ \E i \in 1..(Len(COLOR_STOPS) - 1) :
                  br.lo = COLOR_STOPS[i] /\ br.hi = COLOR_STOPS[i + 1]
            /\ br.lo.t <= arg_score /\ arg_score <= br.hi.t
            /\ Between(ret_color.r, br.lo.r, br.hi.r)
            /\ Between(ret_color.g, br.lo.g, br.hi.g)
            /\ Between(ret_color.b, br.lo.b, br.hi.b)

C14_Witness ==
    /\ ColorDone
    /\ arg_score = 625000
    /\ ret_color = [r |-> 230, g |-> 128, b |-> 15]

(* C15: the interpolation fails with InvalidGradientError on a stop list of  *)
(* fewer than two entries or not sorted by position, and no other operation  *)
(* of the core can fail.  _scoreColor reads the constant COLOR_STOPS, has no  *)
(* failing path and yields a colour for every score (SpecColor); what is     *)
(* left to decide is that no other operation raises.                         *)
C15_NoOtherOperationFails ==
    /\ ~ret_centroid.raised
    /\ ~ret_feature.raised

(* The stop list the interpolation reads has at least two entries, sorted *)
(* ascending by position.                                                 *)
StopsWellFormed ==
    /\ Len(COLOR_STOPS) >= 2
    /\ \A i \in 1..(Len(COLOR_STOPS) - 1) : COLOR_STOPS[i].t <= COLOR_STOPS[i + 1].t

-----------------------------------------------------------------------------
(* Properties of a station's maxAQI (SpecMaxAQI) *)

MaxAQIDone == pc = "maxAQI_done"

(* The numeric sub-indices among the station's pollutants *)
NumericIndices ==
    IF arg_aqiData = Null THEN {}
    ELSE { Val(arg_aqiData).pollutants[i].AirQualityIndex.v :
               i \in { j \in 1..Len(Val(arg_aqiData).pollutants) :
                           Val(arg_aqiData).pollutants[j].AirQualityIndex.kind = "num" } }

(* C17: a station's maxAQI is the highest numeric sub-index among its      *)
(* pollutants, and null exactly when no pollutant has a numeric sub-index. *)
C17_MaxIsHighestNumericIndex ==
    MaxAQIDone =>
        /\ ret_maxAQI = Null <=> NumericIndices = {}
        /\ ret_maxAQI # Null =>
              /\ Val(ret_maxAQI) \in NumericIndices
              /\ \A n \in NumericIndices : n <= Val(ret_maxAQI)

C17_Witness ==
    /\ MaxAQIDone
    /\ arg_aqiData # Null
    /\ Len(Val(arg_aqiData).pollutants) = 3
    /\ Val(arg_aqiData).pollutants[1].AirQualityIndex = JsNum(3)
    /\ Val(arg_aqiData).pollutants[2].AirQualityIndex = JsNull
    /\ Val(arg_aqiData).pollutants[3].AirQualityIndex = JsNum(1)
    /\ ret_maxAQI = Some(3)

-----------------------------------------------------------------------------
(* Properties of the combined layer (SpecLayers) *)

(* C6: every region of the loaded deprivation dataset receives a score       *)
(* breakdown in the combined layer; a region without decile is scored with   *)
(* the neutral depComp 0.5, not skipped.                                     *)
C6_EveryRegionScored ==
    [][ (app.dep_load = "done" /\ ~app.comb_visible /\ app'.comb_visible) =>
            \A i \in 1..Len(Val(app.dep_layer)) :
                \E k \in 1..Len(Val(app'.comb_layer)) :
                    /\ Val(app'.comb_layer)[k].lsoa.lsoa_code =
                           Val(app.dep_layer)[i].lsoa_code
                    /\ Val(app.dep_layer)[i].imd_decile = Null
                          => Val(app'.comb_layer)[k].depComp = 500 ]_vars

(* C16: two runs of the score computation over identical region records and  *)
(* an identical station mapping, such as hiding and showing the combined      *)
(* layer again with the loaded data unchanged, yield identical components,    *)
(* scores and matched stations.                                               *)
C16_SameDataSameScores ==
    (/\ Len(builds) = 2
     /\ builds[1].stations = builds[2].stations
     /\ builds[1].data = builds[2].data) =>
        builds[1].layer = builds[2].layer

C16_Witness ==
    /\ Len(builds) = 2
    /\ builds[1].stations = builds[2].stations
    /\ builds[1].data = builds[2].data
    /\ Len(builds[1].data) = 2
    /\ builds[1].stations # <<>>
    /\ builds[1].layer = builds[2].layer
    /\ Len(builds[1].layer) >= 1
    /\ builds[1].layer[1].nearestSt # Null
    /\ ~app.air_visible

-----------------------------------------------------------------------------
(* Properties of the page (SpecApp) *)

CombinedSwitchedOff == before # Null /\ ~Val(before).open

LayerNames == <<"air", "noise", "road-noise", "flood", "dep">>

RoundTripOfFetchlessLayers ==
    CombinedSwitchedOff =>
        LayersOnMap(app) \ {"dep"} = Val(before).onMap \ {"dep"}

(* C19: while toggle-combined is checked, none of the five individual layers *)
(* is on the map, however the toggle events and the completions of the two   *)
(* fetches interleave.                                                       *)
C19_NoIndividualLayerWhileCombined ==
    app.chk_combined => LayersOnMap(app) = {}

(* The statement of C19 for the four layers other than deprivation *)
NoFetchlessLayerWhileCombined ==
    app.chk_combined => LayersOnMap(app) \ {"dep"} = {}

(* C20: whenever the combined layer is shown and both fetches have resolved, *)
(* it holds a scored feature for every region the deprivation layer holds,   *)
(* scored against the stations the air-quality layer holds now, also when    *)
(* it was switched on before a fetch resolved.                               *)
C20_CombinedLayerFollowsLoads ==
    (app.comb_visible /\ app.air_load = "done" /\ app.dep_load = "done") =>
        /\ \A i \in 1..Len(Val(app.dep_layer)) :
              \E k \in 1..Len(Val(app.comb_layer)) :
                  Val(app.comb_layer)[k].lsoa.lsoa_code = Val(app.dep_layer)[i].lsoa_code
        /\ \A k \in 1..Len(Val(app.comb_layer)) :
              LET f == Val(app.comb_layer)[k]
              IN  f = [lsoa |-> f.lsoa] @@ Feature(f.lsoa, app.air_stations)

(* The individual layers whose checkbox is unchecked *)
UncheckedLayers(w) == { LayerNames[i] : i \in { j \in 1..5 : ~Checkboxes(w)[j] } }

(* C21: from all five checkboxes checked and toggle-combined unchecked, in   *)
(* every interleaving of the toggle events with the two fetches, whenever    *)
(* toggle-combined is unchecked (between listeners), an individual layer     *)
(* whose checkbox is unchecked is not on the map.                            *)
C21_UncheckedLayerNotOnMap ==
    ~app.chk_combined => LayersOnMap(app) \cap UncheckedLayers(app) = {}

(* The statement of C21 for the four layers other than deprivation *)
UncheckedFetchlessLayerNotOnMap ==
    ~app.chk_combined => (LayersOnMap(app) \ {"dep"}) \cap UncheckedLayers(app) = {}

-----------------------------------------------------------------------------
(* Properties of the legend and of the modules' flags (SpecLayers, SpecApp) *)

(* The Leaflet layer a legend panel belongs to *)
LayerOfPanel(key) == IF key = "deprivation" THEN "dep" ELSE key

OnePanelPerKey(w) ==
    \A i, j \in 1..Len(w.legend) : w.legend[i] = w.legend[j] => i = j

(* C22: after any sequence of init, show, hide and mode changes, whatever    *)
(* the fetches did (resolved, failed, still pending), a layer that is not on *)
(* the map has no panel in the legend container, and no legend key has more  *)
(* than one panel.                                                           *)
C22_NoPanelWithoutLayer ==
    /\ \A i \in 1..Len(app.legend) : LayerOfPanel(app.legend[i]) \in app.onMap
    /\ OnePanelPerKey(app)

(* The statement of C22 for every panel but the deprivation layer's *)
NoPanelWithoutLayerButDeprivation ==
    /\ \A i \in 1..Len(app.legend) :
          app.legend[i] # "deprivation" => LayerOfPanel(app.legend[i]) \in app.onMap
    /\ OnePanelPerKey(app)

(* The layers of a module that are on the map and referenced by it *)
OnMapOf(w, names) == w.onMap \cap names

(* C23: for each layer module, after init and any sequence of show, hide and *)
(* mode or metric changes, _visible is true exactly when a layer of the      *)
(* module is on the map (for the flood module at least one of its two), and  *)
(* no layer the module no longer references is left on the map.              *)
C23_VisibleIffOnMap ==
    /\ app.noise_visible <=> OnMapOf(app, {"noise"}) # {}
    /\ app.rn_visible <=> OnMapOf(app, {"road-noise"}) # {}
    /\ app.flood_visible <=> OnMapOf(app, {"flood-rs", "flood-sw"}) # {}
    /\ app.comb_visible <=> OnMapOf(app, {"combined"}) # {}
    /\ app.air_visible <=> OnMapOf(app, {"air"}) # {}
    /\ app.dep_visible <=> OnMapOf(app, {"dep"}) # {}
    /\ app.stale = {}

C23_Witness ==
    /\ pc = "modules"
    /\ app.flood_visible /\ app.flood_mode = "both"
    /\ OnMapOf(app, {"flood-rs", "flood-sw"}) = {"flood-rs", "flood-sw"}
    /\ app.rn_visible /\ app.rn_metric = "RD_LNGT_R3" /\ "road-noise" \in app.onMap
    /\ app.noise_map /\ ~app.noise_visible /\ "noise" \notin app.onMap
    /\ app.comb_visible /\ "combined" \in app.onMap
    /\ Len(builds) = 2

(* C24: for every layer module, show() while the layer is visible, hide()   *)
(* while it is hidden, and show() or hide() before init(map) leave the      *)
(* module's state, the layers on the map and the legend panels as they are. *)
C24_RedundantCallsChangeNothing ==
    /\ (~app.noise_map \/ app.noise_visible) => NoiseLayer_show(app) = app
    /\ (~app.noise_map \/ ~app.noise_visible) => NoiseLayer_hide(app) = app
    /\ (~app.rn_map \/ app.rn_visible) => RoadNoiseLayer_show(app) = app
    /\ (~app.rn_map \/ ~app.rn_visible) => RoadNoiseLayer_hide(app) = app
    /\ (~app.flood_map \/ app.flood_visible) => FloodRiskLayer_show(app) = app
    /\ (~app.flood_map \/ ~app.flood_visible) => FloodRiskLayer_hide(app) = app
    /\ (~app.comb_map \/ app.comb_visible) => CombinedScoreLayer_show(app) = app
    /\ (~app.comb_map \/ ~app.comb_visible) => CombinedScoreLayer_hide(app) = app
    /\ (~app.air_map \/ app.air_visible) => AirQualityLayer_show(app) = app
    /\ (~app.air_map \/ ~app.air_visible) => AirQualityLayer_hide(app) = app
    /\ (~app.dep_map \/ app.dep_visible) => DeprivationLayer_show(app) = app
    /\ (~app.dep_map \/ ~app.dep_visible) => DeprivationLayer_hide(app) = app

C24_Witness ==
    /\ pc = "modules"
    /\ app.rn_visible
    /\ app.legend = <<"road-noise", "flood-sw", "combined">>
    /\ app.noise_map /\ ~app.noise_visible
    /\ app.flood_visible
    /\ app.comb_visible
    /\ RoadNoiseLayer_show(app) = app
    /\ NoiseLayer_hide(app) = app

(* C25: while toggle-combined is checked, a change event on any of the five  *)
(* individual toggles changes nothing but its own checkbox (no layer's       *)
(* visibility, no legend panel, no sub-selector panel), and a flood-mode or  *)
(* road-noise-metric change puts no layer on the map.                        *)
C25_TogglesInertWhileCombined ==
    app.chk_combined =>
        /\ [OnToggleAir(app) EXCEPT !.chk_air = app.chk_air] = app
        /\ [OnToggleNoise(app) EXCEPT !.chk_noise = app.chk_noise] = app
        /\ [OnToggleRoadNoise(app) EXCEPT !.chk_rn = app.chk_rn] = app
        /\ [OnToggleFlood(app) EXCEPT !.chk_flood = app.chk_flood] = app
        /\ [OnToggleDeprivation(app) EXCEPT !.chk_dep = app.chk_dep] = app
        /\ \A value \in {"rs", "sw", "both"} :
               LET w == OnFloodMode(app, value)
               IN  w.onMap = app.onMap /\ w.stale = app.stale
        /\ \A value \in METRICS :
               LET w == OnRoadNoiseMetric(app, value)
               IN  w.onMap = app.onMap /\ w.stale = app.stale

C25_Witness ==
    /\ pc = "app"
    /\ app.chk_combined
    /\ app.stateBeforeCombined # Null
    /\ Val(app.stateBeforeCombined).roadNoise /\ ~app.chk_rn
    /\ ~Val(app.stateBeforeCombined).flood /\ app.chk_flood
    /\ app.rn_metric = "RD_LNGT_R3"
    /\ app.flood_mode = "both"
    /\ app.onMap = {"combined"}
    /\ ~app.rn_sub_hidden /\ app.flood_sub_hidden

(* The station mapping with the matched station's maxAQI replaced *)
WithMaxAQI(stations, st, v) ==
    [i \in DOMAIN stations |->
        IF stations[i] = st THEN [stations[i] EXCEPT !.maxAQI = Some(v)]
        ELSE stations[i]]

ScoreWithDecile(d) ==
    Feature([arg_lsoa EXCEPT !.imd_decile = Some(d)], arg_stations).score

ScoreWithMaxAQI(v) ==
    Feature(arg_lsoa, WithMaxAQI(arg_stations, Val(Matched), v)).score

(* C26: the combined score is monotone in its inputs: with the centroid and  *)
(* the stations fixed, a lower decile never yields a lower score, and with   *)
(* the region and the other stations fixed, a higher maxAQI of the matched   *)
(* station never yields a lower score.                                       *)
C26_MonotoneInDecileAndMaxAQI ==
    (ScoreDone /\ ~ret_feature.raised) =>
        /\ arg_lsoa.imd_decile # Null =>
               \A d \in Deciles \ {Null} :
                   Val(d) < Val(arg_lsoa.imd_decile) =>
                       ScoreWithDecile(Val(d)) >= ret_feature.score
        /\ (Matched # Null /\ Val(Matched).maxAQI # Null) =>
               \A v \in MaxAQIs \ {Null} :
                   Val(v) > Val(Val(Matched).maxAQI) =>
                       /\ Feature(arg_lsoa,
                              WithMaxAQI(arg_stations, Val(Matched), Val(v))).nearestSt
                             = Some([Val(Matched) EXCEPT !.maxAQI = v])
                       /\ ScoreWithMaxAQI(Val(v)) >= ret_feature.score

C26_Witness ==
    /\ ScoreDone
    /\ arg_lsoa.imd_decile = Some(5)
    /\ Len(arg_stations) >= 2
    /\ Matched = Some(arg_stations[2])
    /\ Val(Matched).maxAQI = Some(7)
    /\ ret_feature.score = 620000
    /\ ScoreWithDecile(4) = 660000
    /\ ScoreWithMaxAQI(10) = 740000
    /\ ScoreWithMaxAQI(11) = 740000

====
